---- MODULE Spec2Model ----
(***************************************************************************)
(* A model of the virtual-memory core of k23:                              *)
(*   - the TLB flush batcher  (libs/kmm/src/flush.rs, Flush<M>),           *)
(*   - the frame allocator    (declared by libs/vmm/src/error.rs; its      *)
(*     operations follow the design document, section 4.4),                *)
(*   - the error taxonomy     (libs/vmm/src/error.rs).                     *)
(* Spec      is the life of one flush batcher.                             *)
(* FrameSpec is the life of the frame allocator.                           *)
(* ConfigSpec loads a build configuration (build/config/src/lib.rs,         *)
(*           Config) and asks for the table geometry of its memory mode.   *)
(* TargetSpec parses a build target (build/config/src/lib.rs, Target) and   *)
(*           prints it back.                                               *)
(* TwinSpec  runs a batcher made by Flush::new beside one made by          *)
(*           Flush::empty and extended, through the same operations.       *)
(***************************************************************************)
EXTENDS Integers, Sequences, FiniteSets, TLC

\* ---------------------------------------------------------------- bounds
\* Virtual addresses are the page boundaries 0 .. MaxPage.
MaxPage == 3
\* Address-space identifiers are 0 .. MaxAsid.
MaxAsid == 1
\* At most MaxRecorded ranges are recorded into one batcher.
MaxRecorded == 2
\* The allocator manages NumFrames physical frames.
NumFrames == 4
\* A target string has at most MaxParts '-'-separated parts.
MaxParts == 5
\* A configuration file sets a stack size of 1 .. MaxStackPages pages, or
\* leaves it out.
MaxStackPages == 2

\* ------------------------------------------------------- values and types
Min(a, b) == IF a <= b THEN a ELSE b
Max(a, b) == IF a >= b THEN a ELSE b

\* Option<T>: None is the empty sequence, Some(x) the one-element sequence.
None == << >>
Some(x) == << x >>

\* A page-aligned address: page number i is address i * 0x1000.
PageAddr(i) == i * 4096

Asids == 0 .. MaxAsid
VirtualAddress == { PageAddr(i) : i \in 0 .. MaxPage }
PhysicalAddress == { PageAddr(i) : i \in 0 .. NumFrames - 1 }

\* Range<VirtualAddress>, half-open [start, end), non-empty.
Range(s, e) == [start |-> s, end |-> e]
Ranges ==
    { r \in [start : VirtualAddress, end : VirtualAddress] : r.start < r.end }

\* crate::Result / vmm::Error
Ok == [tag |-> "Ok"]
OkAddr(addr) == [tag |-> "Ok", addr |-> addr]
Unit == [tag |-> "Unit"]
OutOfMemory == [tag |-> "OutOfMemory"]
AddressSpaceMismatch(expected, found) ==
    [tag |-> "AddressSpaceMismatch", expected |-> expected, found |-> found]
DoubleFree(addr) == [tag |-> "DoubleFree", addr |-> addr]
SBI(code) == [tag |-> "SBI", code |-> code]

\* What M::invalidate_range can report: success, or an SBI failure.
SbiErrors == { "Failed", "NotSupported" }
NotCalled == [tag |-> "NotCalled"]
InvalidateOutcomes == { Ok } \cup { SBI(c) : c \in SbiErrors }

\* ----------------------------------------------------------- AddressRange
\* AddressRangeExt::concat: the union bound of the two ranges.
concat(this, other) ==
    Range(Min(this.start, other.start), Max(this.end, other.end))

\* Two ranges are adjacent or overlapping (no gap between them).
Touching(a, b) == a.start <= b.end /\ b.start <= a.end

\* ------------------------------------------------------------------ Flush
\* Flush::empty
empty(asid) == [asid |-> asid, range |-> None]

\* new written like empty: the range is forgotten.
new_without_range(asid, range) == [asid |-> asid, range |-> None]

\* Flush::new
new(asid, range) == [asid |-> asid, range |-> Some(range)]

\* extend_range taking the pending range out before it compares the ASIDs:
\* a mismatch then leaves the batcher with no range.
extend_range_take_first(self, asid, other) ==
    IF self.asid = asid
    THEN [self |-> [self EXCEPT !.range =
                        IF self.range # None
                        THEN Some(concat(self.range[1], other))
                        ELSE Some(other)],
          ret  |-> Ok]
    ELSE [self |-> [self EXCEPT !.range = None],
          ret  |-> AddressSpaceMismatch(self.asid, asid)]

\* extend_range storing the new range over the pending one, not merging.
extend_range_replace(self, asid, other) ==
    IF self.asid = asid
    THEN [self |-> [self EXCEPT !.range = Some(other)], ret |-> Ok]
    ELSE [self |-> self,
          ret  |-> AddressSpaceMismatch(self.asid, asid)]

\* extend_range letting an Empty batcher take over the ASID of its first
\* range.
extend_range_adopts_asid(self, asid, other) ==
    IF self.range = None
    THEN [self |-> [asid |-> asid, range |-> Some(other)], ret |-> Ok]
    ELSE IF self.asid = asid
    THEN [self |-> [self EXCEPT !.range = Some(concat(self.range[1], other))],
          ret  |-> Ok]
    ELSE [self |-> self,
          ret  |-> AddressSpaceMismatch(self.asid, asid)]

\* Flush::extend_range(&mut self, asid, other): the batcher afterwards and
\* the value returned.
extend_range(self, asid, other) ==
    IF self.asid = asid
    THEN [self |-> [self EXCEPT !.range =
                        IF self.range # None
                        THEN Some(concat(self.range[1], other))
                        ELSE Some(other)],
          ret  |-> Ok]
    ELSE [self |-> self,
          ret  |-> AddressSpaceMismatch(self.asid, asid)]

\* flush invalidating the global address space (ASID 0), not the batcher's.
flush_asid_zero(self, hw) ==
    IF self.range # None
    THEN [calls |-> << [asid |-> 0, range |-> self.range[1]] >>,
          ret   |-> hw]
    ELSE [calls |-> << >>, ret |-> Ok]

\* flush reaching the hardware primitive even when no range was recorded.
flush_always_calls(self, hw) ==
    IF self.range # None
    THEN [calls |-> << [asid |-> self.asid, range |-> self.range[1]] >>,
          ret   |-> hw]
    ELSE [calls |-> << [asid |-> self.asid, range |-> Range(0, 0)] >>,
          ret   |-> hw]

\* flush discarding what invalidate_range reports.
flush_swallows(self, hw) ==
    IF self.range # None
    THEN [calls |-> << [asid |-> self.asid, range |-> self.range[1]] >>,
          ret   |-> Ok]
    ELSE [calls |-> << >>, ret |-> Ok]

\* Flush::flush(self): the invalidate_range calls it makes and the value
\* returned; hw is what M::invalidate_range reports when it is called.
flush(self, hw) ==
    IF self.range # None
    THEN [calls |-> << [asid |-> self.asid, range |-> self.range[1]] >>,
          ret   |-> hw]
    ELSE [calls |-> << >>, ret |-> Ok]

\* ignore invalidating a pending range after all.
ignore_flushes(self) ==
    [calls |-> IF self.range # None
               THEN << [asid |-> self.asid, range |-> self.range[1]] >>
               ELSE << >>,
     ret |-> Unit]

\* Flush::ignore(self): no call, returns ().
ignore(self) == [calls |-> << >>, ret |-> Unit]

\* -------------------------------------------------------- Frame allocator
\* The frames that are Free.
FreeFrames(fr) == { a \in DOMAIN fr : fr[a] = "Free" }

\* allocate handing the frame out without marking it Allocated.
allocate_no_mark(fr, pick) ==
    IF FreeFrames(fr) = {}
    THEN [frames |-> fr, ret |-> OutOfMemory]
    ELSE [frames |-> fr, ret |-> OkAddr(pick)]

\* allocate giving up while one frame is still Free.
allocate_off_by_one(fr, pick) ==
    IF Cardinality(FreeFrames(fr)) <= 1
    THEN [frames |-> fr, ret |-> OutOfMemory]
    ELSE [frames |-> [fr EXCEPT ![pick] = "Allocated"], ret |-> OkAddr(pick)]

\* allocate(): hands out the Free frame `pick` (which one is the allocation
\* policy's choice) and marks it Allocated; OutOfMemory when none is Free.
allocate(fr, pick) ==
    IF FreeFrames(fr) = {}
    THEN [frames |-> fr, ret |-> OutOfMemory]
    ELSE [frames |-> [fr EXCEPT ![pick] = "Allocated"], ret |-> OkAddr(pick)]

\* free returning the frame to the pool without looking at its state.
free_unchecked(fr, addr) ==
    [frames |-> [fr EXCEPT ![addr] = "Free"], ret |-> Ok]

\* free(addr): DoubleFree(addr) when the frame is already Free, checked
\* before the frame goes back to the free pool.
free(fr, addr) ==
    IF fr[addr] = "Free"
    THEN [frames |-> fr, ret |-> DoubleFree(addr)]
    ELSE [frames |-> [fr EXCEPT ![addr] = "Free"], ret |-> Ok]

\* ----------------------------------------------------------------- Target
\* A string is a sequence of symbols: the separator '-' and pieces of text
\* without a '-', each piece taken whole.
Dash == "-"
Words == { "riscv64gc", "unknown", "none", "elf", "linux" }
Str(w) == << w >>
ReplacementChar == "U+FFFD"

\* anyhow::Result
OkValue(v) == [tag |-> "Ok", value |-> v]
Err(msg) == [tag |-> "Err", msg |-> msg]

HasDash(str) == \E i \in 1 .. Len(str) : str[i] = Dash
FirstDash(str) ==
    CHOOSE i \in 1 .. Len(str) :
        str[i] = Dash /\ \A j \in 1 .. (i - 1) : str[j] # Dash

\* str::splitn(n, '-'), n >= 1: at most n pieces, the last one holding the
\* rest of the string, separators included.
RECURSIVE splitn(_, _)
splitn(n, str) ==
    IF n <= 1 \/ ~HasDash(str)
    THEN << str >>
    ELSE << SubSeq(str, 1, FirstDash(str) - 1) >>
         \o splitn(n - 1, SubSeq(str, FirstDash(str) + 1, Len(str)))

\* The checks of TargetTriple::from_str on the pieces it reads.
TripleOf(iter) ==
    IF Len(iter) < 2 THEN Err("missing vendor in target triple")
    ELSE IF Len(iter) < 3 THEN Err("missing OS in target triple")
    ELSE IF Len(iter) < 4 THEN Err("missing environment in target triple")
    ELSE IF iter[1] # Str("riscv64gc") THEN Err("unsupported architecture")
    ELSE IF iter[2] # Str("unknown") THEN Err("unsupported vendor")
    ELSE IF iter[3] # Str("none") THEN Err("unsupported OS")
    ELSE IF iter[4] # Str("elf") THEN Err("unsupported environment")
    ELSE OkValue([arch |-> iter[1], vendor |-> iter[2],
                  os |-> iter[3], env |-> iter[4]])

\* TargetTriple::from_str written with split('-'): everything after the
\* fourth piece is ignored.
TargetTriple_from_str_split(target_triple) ==
    TripleOf(splitn(Len(target_triple) + 1, target_triple))

\* TargetTriple::from_str
TargetTriple_from_str(target_triple) ==
    TripleOf(splitn(4, target_triple))

\* PathBuf::from(&str): the same units, as an OS string.
PathBuf_from(str) == str

\* Path::to_string_lossy: units that are not valid Unicode become U+FFFD.
to_string_lossy(path) ==
    [i \in 1 .. Len(path) |->
        IF path[i] \in Words \cup { Dash } THEN path[i] ELSE ReplacementChar]

\* Target::from_str: never an error.
Target_from_str(target) ==
    IF TargetTriple_from_str(target).tag = "Ok"
    THEN OkValue([tag |-> "Triple",
                  triple |-> TargetTriple_from_str(target).value])
    ELSE OkValue([tag |-> "Path", path |-> PathBuf_from(target)])

\* Target::to_string
Target_to_string(self) ==
    IF self.tag = "Triple"
    THEN self.triple.arch \o Str(Dash) \o self.triple.vendor \o Str(Dash)
         \o self.triple.os \o Str(Dash) \o self.triple.env
    ELSE to_string_lossy(self.path)

\* The strings given to Target::from_str: up to MaxParts parts, each empty
\* or one piece of text, joined by '-'.
RECURSIVE Join(_)
Join(parts) ==
    IF Len(parts) = 1 THEN parts[1]
    ELSE parts[1] \o Str(Dash) \o Join(Tail(parts))

TargetParts == { << >> } \cup { Str(w) : w \in Words }
TargetInputs ==
    { Join(ps) : ps \in UNION { [1 .. n -> TargetParts] : n \in 1 .. MaxParts } }

\* The one supported triple, riscv64gc-unknown-none-elf.
SupportedTriple ==
    << "riscv64gc", "-", "unknown", "-", "none", "-", "elf" >>

\* ----------------------------------------------------------------- Config
\* enum MemoryMode, by variant name (serde reads exactly these names).
MemoryMode == { "Riscv64Sv39", "Riscv64Sv48", "Riscv64Sv57" }

kernel_default_stack_size_pages == 16
bootloader_default_stack_size_pages == 4

\* What a configuration file can say: the memory mode as written (a variant
\* name, or something serde rejects), the two stack sizes (optional) and the
\* target.  name, version, features, log-level and uart-baud-rate are copied
\* through unread and are left out.
WrittenModes == MemoryMode \cup { "Sv39", "riscv64-sv39" }
WrittenStacks == { None } \cup { Some(n) : n \in 1 .. MaxStackPages }
WrittenTargets ==
    { SupportedTriple, SupportedTriple \o << "-", "linux" >>, << "linux" >> }
FileContents ==
    [memory_mode : WrittenModes, kernel_stack : WrittenStacks,
     loader_stack : WrittenStacks, target : WrittenTargets]
Paths == { "k23.toml", "configs/riscv64-qemu.toml" }

\* DefaultHasher over the file's text: the digest stands for the text.
DefaultHasher(str) == [digest_of |-> str]

\* from_file_with_hasher falling back to Sv39 for a memory mode it does not
\* know.
from_file_with_hasher_default_mode(path, file) ==
    IF file = None
    THEN Err("failed to read configuration file")
    ELSE OkValue(
           [memory_mode |-> IF file[1].memory_mode \in MemoryMode
                            THEN file[1].memory_mode ELSE "Riscv64Sv39",
            kernel |-> [stack_size_pages |->
                           IF file[1].kernel_stack = None
                           THEN kernel_default_stack_size_pages
                           ELSE file[1].kernel_stack[1]],
            loader |-> [stack_size_pages |->
                           IF file[1].loader_stack = None
                           THEN bootloader_default_stack_size_pages
                           ELSE file[1].loader_stack[1]],
            buildhash |-> DefaultHasher(file[1]),
            config_path |-> path,
            target |-> Target_from_str(file[1].target).value])

\* Config::from_file_with_hasher(path, hasher); file is what is at path:
\* None when it cannot be read.
from_file_with_hasher(path, file) ==
    IF file = None
    THEN Err("failed to read configuration file")
    ELSE IF file[1].memory_mode \notin MemoryMode
    THEN Err("failed to parse configuration")
    ELSE OkValue(
           [memory_mode |-> file[1].memory_mode,
            kernel |-> [stack_size_pages |->
                           IF file[1].kernel_stack = None
                           THEN kernel_default_stack_size_pages
                           ELSE file[1].kernel_stack[1]],
            loader |-> [stack_size_pages |->
                           IF file[1].loader_stack = None
                           THEN bootloader_default_stack_size_pages
                           ELSE file[1].loader_stack[1]],
            buildhash |-> DefaultHasher(file[1]),
            config_path |-> path,
            target |-> Target_from_str(file[1].target).value])

\* Config::from_file
from_file(path, file) == from_file_with_hasher(path, file)

\* The number of translation-table levels of a memory mode.
levels(mode) ==
    CASE mode = "Riscv64Sv39" -> 3
      [] mode = "Riscv64Sv48" -> 4
      [] mode = "Riscv64Sv57" -> 5

\* ------------------------------------------------------------------ state
VARIABLES
    f,      \* the batcher: [asid, range]
    life,   \* "live", "consumed" (moved into flush/ignore) or "dropped"
    calls,  \* the invalidate_range calls made so far, in order
    ret,    \* what the last operation returned
    op,     \* the last operation and its arguments
    pre,    \* the batcher as it was before the last operation
    hist,   \* the ranges recorded so far (by new or a successful extend)
    extended, \* whether extend_range was ever called on the batcher
    made,   \* how the batcher was constructed: [ctor, asid]
    hasids, \* the ASID each range of hist was submitted with
    frames, \* the allocator: frame address -> "Free" | "Allocated"
    aret,   \* what the allocator's last operation returned
    aop,    \* the allocator's last operation and its argument
    aprev,  \* the allocator's operation before that
    apre,   \* the frames as they were before the last operation
    handed, \* per frame: successful allocations of it since its last free
    runN,   \* the Free frames when the current run of allocate() calls began
    runK,   \* the allocate() calls in the current run
    viaNew,   \* twin 1: batcher made by Flush::new(a, r), with its calls and
              \* last return value
    viaEmpty, \* twin 2: batcher made by Flush::empty(a), then extended by r
    twinMade, \* the a and r the twins were made with
    twinLife, \* "live" or "consumed", for both twins
    twinOp,   \* the last operation applied to both twins
    twinN,    \* the extend_range calls applied to both twins
    tin,    \* the string given to Target::from_str
    tres,   \* what Target::from_str returned (None before the call)
    tout,   \* what Target::to_string returned (None before the call)
    cfile,  \* the configuration file: [path, content], content None when
            \* the file cannot be read
    cres,   \* what Config::from_file returned (None before the call)
    geo     \* the level count last asked for (None before the query)

flushVars == << f, life, calls, ret, op, pre, hist, extended, made, hasids >>
frameVars == << frames, aret, aop, aprev, apre, handed, runN, runK >>
twinVars == << viaNew, viaEmpty, twinMade, twinLife, twinOp, twinN >>
targetVars == << tin, tres, tout >>
configVars == << cfile, cres, geo >>
vars == << flushVars, frameVars, twinVars, targetVars, configVars >>
otherThanFlush == << frameVars, twinVars, targetVars, configVars >>
otherThanFrames == << flushVars, twinVars, targetVars, configVars >>
otherThanTwins == << flushVars, frameVars, targetVars, configVars >>
otherThanTarget == << flushVars, frameVars, twinVars, configVars >>
otherThanConfig == << flushVars, frameVars, twinVars, targetVars >>

\* No configuration loaded.
ConfigIdle ==
    /\ cfile = [path |-> "k23.toml", content |-> None]
    /\ cres = None
    /\ geo = None

\* No target parsed.
TargetIdle ==
    /\ tin = << >>
    /\ tres = None
    /\ tout = None

\* A batcher that is not being exercised: Flush::empty(0), untouched.
FlushIdle ==
    /\ f = empty(0)
    /\ op = [name |-> "empty", asid |-> 0]
    /\ hist = << >>
    /\ made = [ctor |-> "empty", asid |-> 0]
    /\ hasids = << >>
    /\ life = "live"
    /\ calls = << >>
    /\ ret = Unit
    /\ pre = f
    /\ extended = FALSE

\* The allocator after construction: every frame Free.
AllocatorInit ==
    /\ frames = [a \in PhysicalAddress |-> "Free"]
    /\ aret = Unit
    /\ aop = [name |-> "init"]
    /\ aprev = [name |-> "init"]
    /\ apre = frames
    /\ handed = [a \in PhysicalAddress |-> 0]
    /\ runN = NumFrames
    /\ runK = 0

\* Twins that are not being exercised.
TwinIdle ==
    /\ viaNew = [f |-> new(0, Range(PageAddr(0), PageAddr(1))),
                 calls |-> << >>, ret |-> Unit]
    /\ viaEmpty = [f |-> empty(0), calls |-> << >>, ret |-> Unit]
    /\ twinMade = [asid |-> 0, range |-> Range(PageAddr(0), PageAddr(1))]
    /\ twinLife = "live"
    /\ twinOp = [name |-> "idle"]
    /\ twinN = 0

\* The state after construction: by Flush::empty or by Flush::new.
Init ==
    /\ \E a \in Asids :
         \/ /\ f = empty(a)
            /\ op = [name |-> "empty", asid |-> a]
            /\ hist = << >>
            /\ made = [ctor |-> "empty", asid |-> a]
            /\ hasids = << >>
         \/ \E r \in Ranges :
              /\ f = new(a, r)
              /\ op = [name |-> "new", asid |-> a, range |-> r]
              /\ hist = << r >>
              /\ made = [ctor |-> "new", asid |-> a]
              /\ hasids = << a >>
    /\ life = "live"
    /\ calls = << >>
    /\ ret = Unit
    /\ pre = f
    /\ extended = FALSE
    /\ AllocatorInit
    /\ TwinIdle
    /\ TargetIdle
    /\ ConfigIdle

\* f.extend_range(asid, other)
Extend(asid, other) ==
    /\ life = "live"
    /\ asid = f.asid => Len(hist) < MaxRecorded
    /\ LET r == extend_range(f, asid, other) IN
         /\ f' = r.self
         /\ ret' = r.ret
         /\ hist' = IF r.ret = Ok THEN Append(hist, other) ELSE hist
         /\ hasids' = IF r.ret = Ok THEN Append(hasids, asid) ELSE hasids
    /\ pre' = f
    /\ op' = [name |-> "extend", asid |-> asid, range |-> other]
    /\ extended' = TRUE
    /\ UNCHANGED << life, calls, made, otherThanFlush >>

\* f.flush(): consumes the batcher.
Flush(hw) ==
    /\ life = "live"
    /\ LET r == flush(f, hw) IN
         /\ calls' = calls \o r.calls
         /\ ret' = r.ret
    /\ life' = "consumed"
    /\ pre' = f
    /\ op' = [name |-> "flush",
              hw |-> IF flush(f, hw).calls = << >> THEN NotCalled ELSE hw]
    /\ UNCHANGED << f, hist, extended, made, hasids, otherThanFlush >>

\* ignore borrowing the batcher (&self) instead of taking it: the batcher
\* stays usable afterwards.
Ignore_by_ref ==
    /\ life = "live"
    /\ LET r == ignore(f) IN
         /\ calls' = calls \o r.calls
         /\ ret' = r.ret
    /\ pre' = f
    /\ op' = [name |-> "ignore"]
    /\ UNCHANGED << f, life, hist, extended, made, hasids, otherThanFlush >>

\* unsafe { f.ignore() }: consumes the batcher.
Ignore ==
    /\ life = "live"
    /\ LET r == ignore(f) IN
         /\ calls' = calls \o r.calls
         /\ ret' = r.ret
    /\ life' = "consumed"
    /\ pre' = f
    /\ op' = [name |-> "ignore"]
    /\ UNCHANGED << f, hist, extended, made, hasids, otherThanFlush >>

\* The batcher goes out of scope: Flush has no Drop implementation, so
\* nothing runs.
Drop ==
    /\ life = "live"
    /\ life' = "dropped"
    /\ pre' = f
    /\ op' = [name |-> "drop"]
    /\ ret' = Unit
    /\ UNCHANGED << f, calls, hist, extended, made, hasids, otherThanFlush >>

Next ==
    \/ \E a \in Asids, r \in Ranges : Extend(a, r)
    \/ \E hw \in InvalidateOutcomes : Flush(hw)
    \/ Ignore
    \/ Drop

Spec == Init /\ [][Next]_vars

\* ------------------------------------------------- Frame allocator actions
\* allocate()
Allocate(pick) ==
    /\ runK < runN + 2
    /\ FreeFrames(frames) = {} \/ pick \in FreeFrames(frames)
    /\ LET r == allocate(frames, pick) IN
         /\ frames' = r.frames
         /\ aret' = r.ret
         /\ handed' = IF r.ret.tag = "Ok"
                       THEN [handed EXCEPT ![r.ret.addr] = @ + 1]
                       ELSE handed
    /\ apre' = frames
    /\ aprev' = aop
    /\ aop' = [name |-> "allocate"]
    /\ runK' = runK + 1
    /\ UNCHANGED << runN, otherThanFrames >>

\* free(addr)
Free(addr) ==
    /\ LET r == free(frames, addr) IN
         /\ frames' = r.frames
         /\ aret' = r.ret
         /\ handed' = IF r.ret = Ok THEN [handed EXCEPT ![addr] = 0] ELSE handed
         /\ runN' = Cardinality(FreeFrames(r.frames))
    /\ apre' = frames
    /\ aprev' = aop
    /\ aop' = [name |-> "free", addr |-> addr]
    /\ runK' = 0
    /\ UNCHANGED otherThanFrames

FrameInit ==
    /\ FlushIdle
    /\ AllocatorInit
    /\ TwinIdle
    /\ TargetIdle
    /\ ConfigIdle

FrameNext ==
    \/ \E pick \in PhysicalAddress : Allocate(pick)
    \/ \E addr \in PhysicalAddress : Free(addr)

FrameSpec == FrameInit /\ [][FrameNext]_vars

\* ------------------------------------------------------------ twin batchers
\* One batcher after an operation: its state, the invalidate_range calls
\* made on its behalf so far, and what the operation returned.
Twin(self, cs, r) == [f |-> self, calls |-> cs, ret |-> r]

\* Twin 1 is Flush::new(a, r); twin 2 is Flush::empty(a) after
\* extend_range(a, r), whose return value it keeps.
TwinInit ==
    /\ \E a \in Asids, r \in Ranges :
         /\ viaNew = Twin(new(a, r), << >>, Ok)
         /\ viaEmpty = Twin(extend_range(empty(a), a, r).self, << >>,
                            extend_range(empty(a), a, r).ret)
         /\ twinMade = [asid |-> a, range |-> r]
    /\ twinLife = "live"
    /\ twinOp = [name |-> "made"]
    /\ twinN = 0
    /\ FlushIdle
    /\ AllocatorInit
    /\ TargetIdle
    /\ ConfigIdle

\* extend_range(asid, other) on both twins
TwinExtend(asid, other) ==
    /\ twinLife = "live"
    /\ twinN < MaxRecorded
    /\ viaNew' = Twin(extend_range(viaNew.f, asid, other).self, viaNew.calls,
                      extend_range(viaNew.f, asid, other).ret)
    /\ viaEmpty' = Twin(extend_range(viaEmpty.f, asid, other).self,
                        viaEmpty.calls,
                        extend_range(viaEmpty.f, asid, other).ret)
    /\ twinOp' = [name |-> "extend", asid |-> asid, range |-> other]
    /\ twinN' = twinN + 1
    /\ UNCHANGED << twinMade, twinLife, otherThanTwins >>

\* flush() on both twins, the hardware answering both alike
TwinFlush(hw) ==
    /\ twinLife = "live"
    /\ viaNew' = Twin(viaNew.f, viaNew.calls \o flush(viaNew.f, hw).calls,
                      flush(viaNew.f, hw).ret)
    /\ viaEmpty' = Twin(viaEmpty.f,
                        viaEmpty.calls \o flush(viaEmpty.f, hw).calls,
                        flush(viaEmpty.f, hw).ret)
    /\ twinLife' = "consumed"
    /\ twinOp' = [name |-> "flush", hw |-> hw]
    /\ UNCHANGED << twinMade, twinN, otherThanTwins >>

\* ignore() on both twins
TwinIgnore ==
    /\ twinLife = "live"
    /\ viaNew' = Twin(viaNew.f, viaNew.calls \o ignore(viaNew.f).calls,
                      ignore(viaNew.f).ret)
    /\ viaEmpty' = Twin(viaEmpty.f,
                        viaEmpty.calls \o ignore(viaEmpty.f).calls,
                        ignore(viaEmpty.f).ret)
    /\ twinLife' = "consumed"
    /\ twinOp' = [name |-> "ignore"]
    /\ UNCHANGED << twinMade, twinN, otherThanTwins >>

TwinNext ==
    \/ \E a \in Asids, r \in Ranges : TwinExtend(a, r)
    \/ \E hw \in InvalidateOutcomes : TwinFlush(hw)
    \/ TwinIgnore

TwinSpec == TwinInit /\ [][TwinNext]_vars

\* ------------------------------------------------------------------ Target
TargetInit ==
    /\ tin \in TargetInputs
    /\ tres = None
    /\ tout = None
    /\ FlushIdle
    /\ AllocatorInit
    /\ TwinIdle
    /\ ConfigIdle

\* Target::from_str(tin)
FromStr ==
    /\ tres = None
    /\ tres' = Some(Target_from_str(tin))
    /\ UNCHANGED << tin, tout, otherThanTarget >>

\* target.to_string(), on the Target that from_str returned
TargetToString ==
    /\ tres # None
    /\ tres[1].tag = "Ok"
    /\ tout = None
    /\ tout' = Some(Target_to_string(tres[1].value))
    /\ UNCHANGED << tin, tres, otherThanTarget >>

TargetNext == FromStr \/ TargetToString

TargetSpec == TargetInit /\ [][TargetNext]_vars

\* ------------------------------------------------------------------ Config
ConfigInit ==
    /\ \E p \in Paths :
         \/ cfile = [path |-> p, content |-> None]
         \/ \E c \in FileContents : cfile = [path |-> p, content |-> Some(c)]
    /\ cres = None
    /\ geo = None
    /\ FlushIdle
    /\ AllocatorInit
    /\ TwinIdle
    /\ TargetIdle

\* Config::from_file(path)
FromFile ==
    /\ cres = None
    /\ cres' = Some(from_file(cfile.path, cfile.content))
    /\ UNCHANGED << cfile, geo, otherThanConfig >>

\* A table-geometry query for the configuration's memory mode.
QueryLevels ==
    /\ cres # None
    /\ cres[1].tag = "Ok"
    /\ geo' = Some(levels(cres[1].value.memory_mode))
    /\ geo' # geo
    /\ UNCHANGED << cfile, cres, otherThanConfig >>

ConfigNext == FromFile \/ QueryLevels

ConfigSpec == ConfigInit /\ [][ConfigNext]_vars

\* ============================================================ properties

\* The union bound [min(start), max(end)) of a non-empty sequence of ranges.
UnionBound(rs) ==
    Range(CHOOSE s \in { rs[i].start : i \in 1 .. Len(rs) } :
              \A i \in 1 .. Len(rs) : s <= rs[i].start,
          CHOOSE e \in { rs[i].end : i \in 1 .. Len(rs) } :
              \A i \in 1 .. Len(rs) : e >= rs[i].end)

\* Every range of rs after the first is adjacent to or overlaps the union
\* bound of the ranges before it.
Chain(rs) ==
    \A i \in 2 .. Len(rs) : Touching(UnionBound(SubSeq(rs, 1, i - 1)), rs[i])

\* C1: extend with an ASID other than the batcher's returns
\* AddressSpaceMismatch{expected: the batcher's, found: the given one} and
\* leaves the batcher as it was: same ASID, same pending range (absent if it
\* was Empty, r1 if it was Pending).
C1_MismatchLeavesBatcherUnchanged ==
    (op.name = "extend" /\ op.asid # pre.asid) =>
        /\ ret = AddressSpaceMismatch(pre.asid, op.asid)
        /\ f.asid = pre.asid
        /\ f.range = pre.range

C1_Witness ==
    /\ op.name = "extend"
    /\ op.asid # pre.asid
    /\ pre.range # None
    /\ ret.tag = "AddressSpaceMismatch"

\* C2: flush on a Pending batcher makes exactly one invalidate_range call,
\* with the batcher's ASID and its pending range, however many extends came
\* before; after extend [0x1000,0x2000) and extend [0x2000,0x3000) the one
\* call has the range [0x1000,0x3000).
C2_FlushPendingIssuesOneCall ==
    (op.name = "flush" /\ pre.range # None) =>
        /\ Len(calls) = 1
        /\ calls[1].asid = pre.asid
        /\ calls[1].range = pre.range[1]
        /\ hist = << Range(4096, 8192), Range(8192, 12288) >>
             => calls[1].range = Range(4096, 12288)

C2_Witness ==
    /\ op.name = "flush"
    /\ hist = << Range(4096, 8192), Range(8192, 12288) >>
    /\ extended
    /\ calls = << [asid |-> 1, range |-> Range(4096, 12288)] >>

\* C3: extend with the batcher's ASID succeeds and merges: an Empty batcher
\* becomes Pending with the given range, a Pending one holds the union bound
\* of its range and the given one when they are adjacent or overlapping, and
\* after a sequence of such extends the pending range is the union bound of
\* all the recorded ranges.
C3_MatchingExtendMerges ==
    /\ (op.name = "extend" /\ op.asid = pre.asid) =>
          /\ ret = Ok
          /\ f.asid = pre.asid
          /\ pre.range = None => f.range = Some(op.range)
          /\ (pre.range # None /\ Touching(pre.range[1], op.range)) =>
                f.range = Some(Range(Min(pre.range[1].start, op.range.start),
                                     Max(pre.range[1].end, op.range.end)))
    /\ (hist # << >> /\ Chain(hist)) => f.range = Some(UnionBound(hist))

C3_Witness ==
    /\ op.name = "extend"
    /\ op.asid = pre.asid
    /\ Len(hist) = 2
    /\ Chain(hist)
    /\ hist[1] # hist[2]
    /\ f.range # Some(hist[2])
    /\ f.range # Some(hist[1])

\* C4 as stated: flush on a batcher on which extend was never called makes
\* no hardware call and returns Ok.
C4_NeverExtendedFlushIsNoOp ==
    (op.name = "flush" /\ ~extended) => (calls = << >> /\ ret = Ok)

\* C4, amended: flush on a batcher with no recorded range (made by
\* Flush::empty, no successful extend since) makes no hardware call and
\* returns Ok, and every invalidate_range call carries a range.
C4_EmptyFlushIsNoOp ==
    /\ (op.name = "flush" /\ hist = << >>) => (calls = << >> /\ ret = Ok)
    /\ \A i \in 1 .. Len(calls) : calls[i].range \in Ranges

C4_Witness ==
    /\ op.name = "flush"
    /\ hist = << >>
    /\ extended
    /\ calls = << >>
    /\ ret = Ok

\* C5: no batcher is discarded while still Empty or Pending: each one is
\* resolved by flush or ignore.
C5_NeverDroppedUnresolved == life # "dropped"

\* C6: flush on a Pending batcher returns Ok exactly when invalidate_range
\* succeeded, and otherwise returns the failure invalidate_range reported.
C6_FlushPropagatesHardwareResult ==
    (op.name = "flush" /\ pre.range # None) =>
        /\ op.hw \in InvalidateOutcomes
        /\ ret = op.hw
        /\ (ret = Ok) <=> (op.hw = Ok)
        /\ life = "consumed"

C6_Witness ==
    /\ op.name = "flush"
    /\ pre.range # None
    /\ op.hw = SBI("Failed")
    /\ ret = SBI("Failed")

\* C7: ignore consumes the batcher, Empty or Pending, without any hardware
\* call, and returns nothing that could be a failure.
C7_IgnoreIssuesNoCall ==
    (op.name = "ignore") => (calls = << >> /\ ret = Unit /\ life = "consumed")

C7_Witness ==
    /\ op.name = "ignore"
    /\ pre.range # None
    /\ life = "consumed"

\* C8: no frame is handed out twice without a successful free of it in
\* between: allocate only returns a frame that was Free, and the frame is
\* Allocated afterwards.
C8_FrameExclusivity ==
    /\ \A a \in PhysicalAddress : handed[a] <= 1
    /\ \A a \in PhysicalAddress : handed[a] = 1 <=> frames[a] = "Allocated"
    /\ (aop.name = "allocate" /\ aret.tag = "Ok") =>
          /\ apre[aret.addr] = "Free"
          /\ frames[aret.addr] = "Allocated"

C8_Witness ==
    /\ aop.name = "allocate"
    /\ aret.tag = "Ok"
    /\ aprev.name = "free"
    /\ aprev.addr = aret.addr
    /\ Cardinality({ a \in PhysicalAddress : handed[a] = 1 }) >= 2

\* C9: free of a frame that is already Free returns DoubleFree(addr) and
\* leaves the free pool as it was; so does the second of two free(addr) in a
\* row.
C9_DoubleFreeRejected ==
    /\ (aop.name = "free" /\ apre[aop.addr] = "Free") =>
          (aret = DoubleFree(aop.addr) /\ frames = apre)
    /\ (aop.name = "free" /\ aprev.name = "free" /\ aprev.addr = aop.addr) =>
          (aret = DoubleFree(aop.addr) /\ frames = apre)

C9_Witness ==
    /\ aop.name = "free"
    /\ aprev.name = "free"
    /\ aprev.addr = aop.addr
    /\ aret = DoubleFree(aop.addr)
    /\ FreeFrames(frames) # PhysicalAddress

\* C10: allocate returns OutOfMemory exactly when no frame is Free; in a run
\* of allocate calls that starts with N Free frames the first N succeed and
\* the (N+1)-th returns OutOfMemory, as a value.
C10_OutOfMemoryWhenExhausted ==
    (aop.name = "allocate") =>
        /\ aret.tag \in { "Ok", "OutOfMemory" }
        /\ (aret = OutOfMemory) <=> (FreeFrames(apre) = {})
        /\ runK <= runN => aret.tag = "Ok"
        /\ runK = runN + 1 => aret = OutOfMemory

C10_Witness ==
    /\ aop.name = "allocate"
    /\ runN >= 2
    /\ runK = runN + 1
    /\ aret = OutOfMemory

\* C11: all ranges accumulated in one batcher share its ASID: the ASID is
\* the one given at construction and no extend changes it, every recorded
\* range was submitted with it, and flush passes it to invalidate_range.
C11_OneAsidPerBatcher ==
    /\ f.asid = made.asid
    /\ \A i \in 1 .. Len(hasids) : hasids[i] = made.asid
    /\ \A i \in 1 .. Len(calls) : calls[i].asid = made.asid
    /\ Len(hasids) = Len(hist)

C11_Witness ==
    /\ op.name = "flush"
    /\ made = [ctor |-> "empty", asid |-> 1]
    /\ Len(hasids) = 2
    /\ Len(calls) = 1
    /\ calls[1].asid = 1

\* C13 as stated: a consumed batcher is either Flushed (the invalidation was
\* issued and succeeded) or ExplicitlyBypassed (consumed by ignore).
C13_ConsumedIsFlushedOrBypassed ==
    life = "consumed" =>
        \/ op.name = "ignore"
        \/ op.name = "flush" /\ Len(calls) = 1 /\ ret = Ok

\* C13, amended: a batcher consumed by flush or ignore ended in exactly one
\* of four ways: bypassed by ignore (no call); flushed (one call, Ok);
\* nothing to flush (it was Empty: no call, Ok); or flush failed (one call,
\* whose failure flush returned), the batcher being consumed all the same.
C13_ConsumedResolutions ==
    life = "consumed" =>
        \/ op.name = "ignore" /\ calls = << >> /\ ret = Unit
        \/ op.name = "flush" /\ pre.range # None /\ Len(calls) = 1 /\ ret = Ok
        \/ op.name = "flush" /\ pre.range = None /\ calls = << >> /\ ret = Ok
        \/ /\ op.name = "flush"
           /\ pre.range # None
           /\ Len(calls) = 1
           /\ ret \in { SBI(c) : c \in SbiErrors }

C13_Witness ==
    /\ life = "consumed"
    /\ op.name = "flush"
    /\ pre.range # None
    /\ Len(calls) = 1
    /\ ret = SBI("NotSupported")

\* C14: a batcher is resolved at most once: flush and ignore consume it, no
\* operation acts on it afterwards, and it causes at most one
\* invalidate_range call in its life.
C14_ResolvedAtMostOnce ==
    /\ life = "consumed" <=> op.name \in { "flush", "ignore" }
    /\ life = "dropped" <=> op.name = "drop"
    /\ Len(calls) <= 1
    /\ calls # << >> => (life = "consumed" /\ op.name = "flush")

C14_Witness ==
    /\ life = "consumed"
    /\ op.name = "flush"
    /\ extended
    /\ Len(calls) = 1

\* C15: once a range is recorded the batcher stays Pending, whatever extends
\* follow (matching or not), and the range flush passes to invalidate_range
\* contains every range recorded by Flush::new or a successful extend.
C15_FlushCoversRecordedRanges ==
    /\ hist # << >> => f.range # None
    /\ (op.name = "flush" /\ hist # << >>) =>
          /\ Len(calls) = 1
          /\ \A i \in 1 .. Len(hist) :
                /\ calls[1].range.start <= hist[i].start
                /\ hist[i].end <= calls[1].range.end

C15_Witness ==
    /\ op.name = "flush"
    /\ made.ctor = "new"
    /\ Len(hist) = 2
    /\ hist[2].end <= hist[1].start
    /\ Len(calls) = 1
    /\ calls[1].range = Range(hist[2].start, hist[1].end)

\* C16: Flush::new(a, r) behaves as Flush::empty(a) followed by
\* extend_range(a, r): that extend succeeds, both batchers are Pending with
\* ASID a and range r, and after every same sequence of extend / flush /
\* ignore both hold the same state, returned the same values and made the
\* same invalidate_range calls; flush right after new invalidates r.
C16_NewIsEmptyThenExtend ==
    /\ viaNew = viaEmpty
    /\ viaNew.f.asid = twinMade.asid
    /\ twinN = 0 => viaNew.f.range = Some(twinMade.range)
    /\ (twinOp.name = "flush" /\ twinN = 0) =>
          viaNew.calls = << [asid |-> twinMade.asid, range |-> twinMade.range] >>

C16_Witness ==
    /\ twinOp.name = "flush"
    /\ twinN = 0
    /\ twinMade.asid = 1
    /\ viaNew.calls = << [asid |-> 1, range |-> twinMade.range] >>
    /\ viaEmpty.calls = viaNew.calls
    /\ viaEmpty.ret = SBI("Failed")

\* C17: Target::from_str never returns an error; it returns Target::Triple
\* (arch riscv64gc, vendor unknown, os none, env elf) exactly when the input
\* is riscv64gc-unknown-none-elf, and Target::Path holding the input
\* otherwise; to_string of the result is the input.
C17_TargetRoundTrip ==
    /\ tres # None =>
          /\ tres[1].tag = "Ok"
          /\ tres[1].value.tag \in { "Triple", "Path" }
          /\ tres[1].value.tag = "Triple" <=> tin = SupportedTriple
          /\ tres[1].value.tag = "Triple" =>
                tres[1].value.triple =
                    [arch |-> << "riscv64gc" >>, vendor |-> << "unknown" >>,
                     os |-> << "none" >>, env |-> << "elf" >>]
          /\ tres[1].value.tag = "Path" => tres[1].value.path = tin
    /\ tout # None => tout[1] = tin

C17_Witness ==
    /\ tin = SupportedTriple
    /\ tres # None
    /\ tres[1].value.tag = "Triple"
    /\ tout = Some(SupportedTriple)

\* C12: the memory mode of a loaded configuration is one of Sv39, Sv48 and
\* Sv57, it is the one the configuration file names and stays so, and a
\* table-geometry query returns that variant's level count: 3 for Sv39, 4
\* for Sv48, 5 for Sv57.
C12_ModeFixedAtConstruction ==
    /\ (cres # None /\ cres[1].tag = "Ok") =>
          /\ cres[1].value.memory_mode \in
                { "Riscv64Sv39", "Riscv64Sv48", "Riscv64Sv57" }
          /\ cfile.content # None
          /\ cres[1].value.memory_mode = cfile.content[1].memory_mode
    /\ geo # None =>
          /\ cres # None
          /\ cres[1].tag = "Ok"
          /\ cres[1].value.memory_mode = "Riscv64Sv39" => geo = Some(3)
          /\ cres[1].value.memory_mode = "Riscv64Sv48" => geo = Some(4)
          /\ cres[1].value.memory_mode = "Riscv64Sv57" => geo = Some(5)

C12_Witness ==
    /\ cres # None
    /\ cres[1].tag = "Ok"
    /\ cres[1].value.memory_mode = "Riscv64Sv48"
    /\ geo = Some(4)

====
